---- MODULE Spec2Model ----
(***************************************************************************)
(* Sorted sets of redimo (Redis commands emulated on a DynamoDB table).    *)
(*                                                                         *)
(* The table holds one item per (pk, sk): pk is the collection key, sk the *)
(* member name, sk2 the order-preserving encoding of the member's score    *)
(* (local secondary index lsi_sk2).  Every store request of a command is   *)
(* one atomic step, so that calls of different clients interleave between  *)
(* their requests exactly as they do against the real store.  Reads are    *)
(* modelled as consistent reads.  One collection key is modelled: no       *)
(* command of the file touches more than one partition.                    *)
(***************************************************************************)
EXTENDS Integers, Sequences, FiniteSets, TLC

(***************************************************************************)
(* Bounds of the model.                                                    *)
(***************************************************************************)
NumMembers == 2      \* members m1 .. mN of the collection that is written to
NumRanked == 3       \* members m1 .. mN of the collection that is only read
MaxCalls == 4        \* calls made in a run of the concurrent specifications
MaxList == 2         \* members listed in one ZREM call
MaxCount == 2        \* count of a ZPOPMIN / ZPOPMAX call
MaxIndex == 3        \* ZRANGE start and stop are -MaxIndex .. MaxIndex

\* Member names are numbered in the order of their names.
Members == 1 .. NumMembers
Ranked == 1 .. NumRanked
Clients == {"c1", "c2"}
Caller == "c1"
AddScores == {1, 2}
Deltas == {-1, 1}

VARIABLES
    table,     \* the DynamoDB table: a set of items [sk, sk2]
    proc,      \* per client: the call in progress (op, pc, locals, result)
    latest,    \* history: per member, the score its latest successful call wrote ({}: none)
    clean,     \* history: every call so far returned without error
    expect,    \* history: initial score plus the deltas of the successful ZINCRBYs
    mine,      \* history: per client, the members its current call wrote and deleted
    budget,    \* calls left in a run of a bounded specification
    prev       \* history: the call the caller made before its current one

vars == <<table, proc, latest, clean, expect, mine, budget, prev>>

None == "none"
Key == "z1"
MemberName(m) == "m" \o ToString(m)
EmptyMap == [m \in {} |-> 0]

(***************************************************************************)
(* Score codec.  A score is written as a string that sorts as the number   *)
(* does: a sign character (negatives first), then the digits of the        *)
(* magnitude, nine-complemented for negatives so that the more negative    *)
(* number sorts first.  A string is a sequence of character codes.         *)
(***************************************************************************)
Digits(n) == << n \div 10, n % 10 >>

floatToLex(x) ==
    IF x < 0 THEN << 0, 9 - Digits(-x)[1], 9 - Digits(-x)[2] >>
             ELSE << 1, Digits(x)[1], Digits(x)[2] >>

lexToFloat(s) ==
    IF s[1] = 0 THEN -((9 - s[2]) * 10 + (9 - s[3]))
                ELSE s[2] * 10 + s[3]

\* Byte-wise string comparison, as the store compares sort keys.
RECURSIVE LexLess(_, _)
LexLess(a, b) ==
    IF a = << >> THEN b # << >>
    ELSE IF b = << >> THEN FALSE
    ELSE IF Head(a) # Head(b) THEN Head(a) < Head(b)
    ELSE LexLess(Tail(a), Tail(b))

LexLeq(a, b) == a = b \/ LexLess(a, b)

(***************************************************************************)
(* The store's single-item requests.                                       *)
(***************************************************************************)
GetItem(tbl, member) == { it \in tbl : it.sk = member }

\* A condition expression evaluated on the item with the request's key.
ConditionHolds(tbl, member, cond) ==
    CASE cond = << >> -> TRUE
      [] cond[1] = "attribute_not_exists" -> GetItem(tbl, member) = {}
      [] cond[1] = "attribute_exists" -> GetItem(tbl, member) # {}
      [] cond[1] = "sk2_equals" -> \E it \in GetItem(tbl, member) : it.sk2 = cond[2]
      [] OTHER -> FALSE

\* Variant: the update expression ADDs the value to the stored one.
UpdateItem_AddsToStored(tbl, member, lex) ==
    (tbl \ GetItem(tbl, member)) \cup
        { [sk |-> member,
           sk2 |-> IF GetItem(tbl, member) = {} THEN lex
                   ELSE floatToLex(lexToFloat((CHOOSE it \in GetItem(tbl, member) : TRUE).sk2)
                                   + lexToFloat(lex))] }

\* UpdateItem SET sk2: creates the item of the key or overwrites its sk2.
UpdateItem(tbl, member, lex) ==
    (tbl \ GetItem(tbl, member)) \cup { [sk |-> member, sk2 |-> lex] }

DeleteItem(tbl, member) == tbl \ GetItem(tbl, member)

(***************************************************************************)
(* ZSCORE: a point read.  fail: the store answers the request with an      *)
(* error.  The result is <<score, ok, err>>.                               *)
(***************************************************************************)
\* Variant: ok is set without looking at len(resp.Item).
ZSCORE_OkWithoutItem(tbl, member, fail) ==
    IF fail THEN << 0, FALSE, "StoreError" >>
    ELSE IF GetItem(tbl, member) # {}
    THEN << lexToFloat((CHOOSE it \in GetItem(tbl, member) : TRUE).sk2), TRUE, "nil" >>
    ELSE << 0, TRUE, "nil" >>

ZSCORE(tbl, member, fail) ==
    IF ~fail /\ GetItem(tbl, member) # {}
    THEN << lexToFloat((CHOOSE it \in GetItem(tbl, member) : TRUE).sk2), TRUE, "nil" >>
    ELSE << 0, FALSE, IF fail THEN "StoreError" ELSE "nil" >>

Stored(tbl, member) == ZSCORE(tbl, member, FALSE)[1]
Exists(tbl, member) == ZSCORE(tbl, member, FALSE)[2]

NoCall == [op |-> None, pc |-> "idle"]

\* c has no call in progress: it made none yet, or holds the result of its last.
Idle(c) == proc[c].pc = "idle"
Quiet(c) == proc[c].pc \in {"idle", "done"}

\* The caller takes the result of its call; its next call starts afresh.
Return(c) ==
    /\ proc[c].pc = "done"
    /\ proc' = [proc EXCEPT ![c] = NoCall]
    /\ table' = table

\* fmt.Errorf("too much contention on %v / %v", key, member)
Contention(member) == "too much contention on " \o Key \o " / " \o MemberName(member)

(***************************************************************************)
(* ZINCRBY(key, member, delta): up to three rounds of ZSCORE and a         *)
(* conditional UpdateItem.                                                 *)
(***************************************************************************)
\* Variant: the loop runs while tries <= 3.
MaxTriesOffByOne == 3 + 1

MaxTries == 3

ZINCRBY_Call(c, member, delta) ==
    /\ Idle(c)
    /\ proc' = [proc EXCEPT ![c] =
            [op |-> "ZINCRBY", pc |-> "read", member |-> member, delta |-> delta,
             tries |-> 0, oldScore |-> 0, ok |-> FALSE, newScore |-> 0,
             err |-> "nil", log |-> << >>, pre |-> table]]
    /\ table' = table

\* Variant: the score read is not added.
ZINCRBY_NewScore_DeltaOnly(oldScore, delta) == delta

\* newScore = oldScore + delta
ZINCRBY_NewScore(oldScore, delta) == oldScore + delta

\* oldScore, ok, err := c.ZSCORE(key, member)
ZINCRBY_Read(c, fail) ==
    /\ proc[c].op = "ZINCRBY" /\ proc[c].pc = "read"
    /\ LET r == ZSCORE(table, proc[c].member, fail) IN
       proc' = [proc EXCEPT ![c] =
            IF r[3] # "nil"
            THEN [@ EXCEPT !.pc = "done", !.err = r[3],
                           !.log = Append(@, "GetItem:error")]
            ELSE [@ EXCEPT !.pc = "write", !.oldScore = r[1], !.ok = r[2],
                           !.newScore = ZINCRBY_NewScore(r[1], proc[c].delta),
                           !.log = Append(@, "GetItem:ok")]]
    /\ table' = table

\* The condition of the write: the score read is still the score stored.
ZINCRBY_Condition(p) ==
    IF p.ok THEN << "sk2_equals", floatToLex(p.oldScore) >> ELSE << >>

ZINCRBY_Write(c, fail) ==
    /\ proc[c].op = "ZINCRBY" /\ proc[c].pc = "write"
    /\ LET p == proc[c] IN
       IF fail
       THEN /\ proc' = [proc EXCEPT ![c] =
                    [@ EXCEPT !.pc = "done", !.err = "StoreError",
                              !.log = Append(@, "UpdateItem:error")]]
            /\ table' = table
       ELSE IF ~ConditionHolds(table, p.member, ZINCRBY_Condition(p))
       THEN /\ proc' = [proc EXCEPT ![c] =
                    [@ EXCEPT !.tries = @ + 1,
                              !.pc = IF p.tries + 1 < MaxTries THEN "read" ELSE "done",
                              !.err = IF p.tries + 1 < MaxTries THEN "nil"
                                      ELSE Contention(p.member),
                              !.log = Append(@, "UpdateItem:condition")]]
            /\ table' = table
       ELSE /\ proc' = [proc EXCEPT ![c] =
                    [@ EXCEPT !.pc = "done", !.log = Append(@, "UpdateItem:ok")]]
            /\ table' = UpdateItem(table, p.member, floatToLex(p.newScore))

(***************************************************************************)
(* ZADD(key, membersWithScores, flags): one UpdateItem per member, in the  *)
(* order the map is iterated, which is any order.                          *)
(***************************************************************************)
FlagSets == { {}, {"IfNotExists"}, {"IfAlreadyExists"} }

\* The score that is not a number, and what big.NewFloat does with it.
NaN == 1000
ErrNaN == "panic: big: NewFloat(NaN)"

ZADD_Call(c, membersWithScores, flags) ==
    /\ Idle(c)
    /\ proc' = [proc EXCEPT ![c] =
            [op |-> "ZADD", pc |-> "loop", args |-> membersWithScores, flags |-> flags,
             rest |-> DOMAIN membersWithScores, savedCount |-> 0,
             err |-> "nil", log |-> << >>, pre |-> table]]
    /\ table' = table

ZADD_Condition(flags) ==
    IF "IfNotExists" \in flags THEN << "attribute_not_exists" >>
    ELSE IF "IfAlreadyExists" \in flags THEN << "attribute_exists" >>
    ELSE << >>

\* Variant: a store error is skipped as a condition failure is.
ZADD_Update_SkipsStoreError(c, member, fail) ==
    /\ proc[c].op = "ZADD" /\ proc[c].pc = "loop"
    /\ member \in proc[c].rest
    /\ LET p == proc[c]
           left == p.rest \ {member}
           next == IF left = {} THEN "done" ELSE "loop"
           wrote == ~fail /\ ConditionHolds(table, member, ZADD_Condition(p.flags))
       IN
       /\ proc' = [proc EXCEPT ![c] =
              [@ EXCEPT !.pc = next, !.rest = left,
                        !.err = IF fail THEN "StoreError"
                                ELSE IF wrote THEN "nil"
                                ELSE "ConditionalCheckFailedException",
                        !.savedCount = IF wrote THEN @ + 1 ELSE @,
                        !.log = Append(@, IF fail THEN "UpdateItem:error"
                                          ELSE IF wrote THEN "UpdateItem:ok"
                                          ELSE "UpdateItem:condition")]]
       /\ table' = IF wrote THEN UpdateItem(table, member, floatToLex(p.args[member]))
                   ELSE table

\* One round of the loop.  err is the function's named result: the request
\* assigns it, `continue` leaves it as it is, and the final bare return
\* hands it to the caller.
ZADD_Update(c, member, fail) ==
    /\ proc[c].op = "ZADD" /\ proc[c].pc = "loop"
    /\ member \in proc[c].rest
    /\ LET p == proc[c]
           left == p.rest \ {member}
           next == IF left = {} THEN "done" ELSE "loop"
       IN
       IF p.args[member] = NaN
       THEN \* big.NewFloat(score) panics with ErrNaN; no request is built
            /\ ~fail
            /\ proc' = [proc EXCEPT ![c] = [@ EXCEPT !.pc = "done", !.err = ErrNaN]]
            /\ table' = table
       ELSE IF fail
       THEN /\ proc' = [proc EXCEPT ![c] =
                    [@ EXCEPT !.pc = "done", !.err = "StoreError",
                              !.log = Append(@, "UpdateItem:error")]]
            /\ table' = table
       ELSE IF ~ConditionHolds(table, member, ZADD_Condition(p.flags))
       THEN /\ proc' = [proc EXCEPT ![c] =
                    [@ EXCEPT !.pc = next, !.rest = left,
                              !.err = "ConditionalCheckFailedException",
                              !.log = Append(@, "UpdateItem:condition")]]
            /\ table' = table
       ELSE /\ proc' = [proc EXCEPT ![c] =
                    [@ EXCEPT !.pc = next, !.rest = left, !.err = "nil",
                              !.savedCount = @ + 1,
                              !.log = Append(@, "UpdateItem:ok")]]
            /\ table' = UpdateItem(table, member, floatToLex(p.args[member]))

(***************************************************************************)
(* ZREM(key, members...): one conditional DeleteItem per listed member.    *)
(* _zpop runs the same loop over the members its scan returned, in the     *)
(* order its map is iterated.                                              *)
(***************************************************************************)
ZREM_Call(c, members) ==
    /\ Idle(c)
    /\ proc' = [proc EXCEPT ![c] =
            [op |-> "ZREM", pc |-> "rem", list |-> members, i |-> 1, count |-> 0,
             err |-> "nil", log |-> << >>, pre |-> table]]
    /\ table' = table

Pops == {"ZPOPMIN", "ZPOPMAX"}

\* Variant: the DeleteItem carries no condition.
ZREM_Unconditional == << >>

\* builder.condition("attribute_exists(#pk)")
ZREM_Condition == << "attribute_exists" >>

\* The members the loop may take next, and what is left after one of them.
ZREM_Next(p) == IF p.op = "ZREM" THEN { p.list[p.i] } ELSE p.rest
ZREM_Last(p) == IF p.op = "ZREM" THEN p.i = Len(p.list) ELSE Cardinality(p.rest) = 1

ZREM_Advance(p, member) ==
    IF p.op = "ZREM" THEN [p EXCEPT !.i = @ + 1] ELSE [p EXCEPT !.rest = @ \ {member}]

ZREM_Delete(c, member, fail) ==
    /\ proc[c].op \in {"ZREM"} \cup Pops /\ proc[c].pc = "rem"
    /\ member \in ZREM_Next(proc[c])
    /\ LET p == proc[c]
           next == IF ZREM_Last(p) THEN "done" ELSE "rem"
       IN
       IF fail
       THEN /\ proc' = [proc EXCEPT ![c] =
                    [p EXCEPT !.pc = "done", !.err = "StoreError",
                              !.log = Append(@, "DeleteItem:error")]]
            /\ table' = table
       ELSE IF ~ConditionHolds(table, member, ZREM_Condition)
       THEN /\ proc' = [proc EXCEPT ![c] =
                    [ZREM_Advance(p, member) EXCEPT !.pc = next,
                              !.log = Append(@, "DeleteItem:condition")]]
            /\ table' = table
       ELSE /\ proc' = [proc EXCEPT ![c] =
                    [ZREM_Advance(p, member) EXCEPT !.pc = next, !.count = @ + 1,
                              !.log = Append(@, "DeleteItem:ok")]]
            /\ table' = DeleteItem(table, member)

(***************************************************************************)
(* The index lsi_sk2 and its Query.  Items are ordered by sk2 and, among   *)
(* equal sk2, by sk.  A page holds at most Limit items and may hold fewer  *)
(* (the store cuts a page at its size limit); a continuation key comes     *)
(* with every page that leaves matching items behind, and may come with a  *)
(* page that the limit ended on the last matching item.                    *)
(***************************************************************************)
ItemLess(a, b) == LexLess(a.sk2, b.sk2) \/ (a.sk2 = b.sk2 /\ a.sk < b.sk)
ItemBefore(a, b, forward) == IF forward THEN ItemLess(a, b) ELSE ItemLess(b, a)

RECURSIVE SortItems(_, _)
SortItems(S, forward) ==
    IF S = {} THEN << >>
    ELSE LET first == CHOOSE a \in S : \A b \in S \ {a} : ItemBefore(a, b, forward)
         IN  << first >> \o SortItems(S \ {first}, forward)

KeyCondition(lex, start, stop) ==
    /\ start # << >> => LexLeq(start, lex)
    /\ stop # << >> => LexLeq(lex, stop)

\* The matching items the query has not yet passed, in scan order.
Query(tbl, start, stop, forward, lastKey) ==
    SortItems({ it \in tbl :
                  /\ KeyCondition(it.sk2, start, stop)
                  /\ \A k \in lastKey : ItemBefore(k, it, forward) }, forward)

PageAllowed(len, limit, n, lek) ==
    /\ n \in 0 .. len
    /\ \A l \in limit : n <= l
    /\ len > 0 => n >= 1
    /\ n < len => lek
    /\ (n = len /\ lek) => n \in limit

(***************************************************************************)
(* _zGeneralRange(key, start, stop, offset, count, forward, sk2): the scan *)
(* loop.  Its locals are fields of the call's record.                      *)
(***************************************************************************)
Scan(start, stop, offset, count, forward) ==
    [start |-> start, stop |-> stop, offset |-> offset, count |-> count,
     forward |-> forward, index |-> 0, remainingCount |-> count,
     lastKey |-> {}, membersWithScores |-> EmptyMap]

\* queryLimit: nil (no element) unless remainingCount > 0
QueryLimit(s) ==
    IF s.remainingCount > 0 THEN { s.remainingCount + s.offset - s.index } ELSE {}

\* for _, item := range resp.Items
RECURSIVE Consume(_, _)
Consume(s, items) ==
    IF items = << >> THEN s
    ELSE Consume(
            IF s.index >= s.offset
            THEN [s EXCEPT !.membersWithScores =
                               (Head(items).sk :> lexToFloat(Head(items).sk2)) @@ @,
                           !.remainingCount = @ - 1,
                           !.index = @ + 1]
            ELSE [s EXCEPT !.index = @ + 1],
            Tail(items))

\* One round of the loop on the answer <<items, lek>>: the scan's next
\* state, and whether the loop goes on.
ScanPage(s, items, lek) ==
    LET t == Consume(s, items)
        more == lek /\ t.remainingCount > 0
    IN  [scan |-> IF more THEN [t EXCEPT !.lastKey = { items[Len(items)] }] ELSE t,
         more |-> more]

(***************************************************************************)
(* _zpop and _zrange: what follows a scan that ended.                      *)
(***************************************************************************)
ZPOP_Call(c, count, forward) ==
    /\ Idle(c)
    /\ proc' = [proc EXCEPT ![c] =
            [op |-> IF forward THEN "ZPOPMIN" ELSE "ZPOPMAX", pc |-> "scan",
             scan |-> Scan(<< >>, << >>, 0, count, forward),
             result |-> EmptyMap, rest |-> {}, count |-> 0,
             err |-> "nil", log |-> << >>, pre |-> table]]
    /\ table' = table

\* _zrange(key, start, stop, forward): the first scan of the call.
ZRANGE_FirstScan(start, stop, forward) ==
    IF start < 0 /\ stop < 0
    THEN [phase |-> "only", scan |-> Scan(<< >>, << >>, -stop - 1, -start, ~forward)]
    ELSE IF start > 0 /\ stop < 0
    THEN [phase |-> "lastScore", scan |-> Scan(<< >>, << >>, -stop - 1, 1, ~forward)]
    ELSE [phase |-> "only", scan |-> Scan(<< >>, << >>, start, stop - start + 1, forward)]

ZRANGE_Call(c, start, stop, forward) ==
    /\ Idle(c)
    /\ proc' = [proc EXCEPT ![c] =
            [op |-> IF forward THEN "ZRANGE" ELSE "ZREVRANGE", pc |-> "scan",
             start |-> start, stop |-> stop, forward |-> forward,
             phase |-> ZRANGE_FirstScan(start, stop, forward).phase,
             scan |-> ZRANGE_FirstScan(start, stop, forward).scan,
             result |-> EmptyMap,
             err |-> "nil", log |-> << >>, pre |-> table]]
    /\ table' = table

\* The scan of p ended with membersWithScores and err.
AfterScan(p, membersWithScores, err) ==
    IF p.op \in Pops
    THEN IF err # "nil" \/ DOMAIN membersWithScores = {}
         THEN [p EXCEPT !.pc = "done", !.result = membersWithScores, !.err = err]
         ELSE [p EXCEPT !.pc = "rem", !.result = membersWithScores,
                        !.rest = DOMAIN membersWithScores]
    ELSE IF p.phase = "only"
    THEN [p EXCEPT !.pc = "done", !.result = membersWithScores, !.err = err]
    ELSE IF err # "nil"
    THEN [p EXCEPT !.pc = "done", !.err = err]
    ELSE IF DOMAIN membersWithScores = {}
    THEN \* floatValues(lastScore)[0] on an empty slice
         [p EXCEPT !.pc = "done", !.err = "panic: index out of range"]
    ELSE LET lastScore == membersWithScores[CHOOSE m \in DOMAIN membersWithScores : TRUE]
         IN  [p EXCEPT !.phase = "only",
                       !.scan = Scan(<< >>, floatToLex(lastScore), p.start, 0, p.forward)]

\* One Query of the scan loop.  n, lek: the page the store answers with.
Range_Query(c, n, lek, fail) ==
    /\ proc[c].pc = "scan"
    /\ LET p == proc[c]
           s == p.scan
           matching == Query(table, s.start, s.stop, s.forward, s.lastKey)
       IN
       IF \E l \in QueryLimit(s) : l < 1
       THEN \* the request is rejected before it is sent: Limit is at least 1
            /\ n = 0 /\ ~lek /\ ~fail
            /\ proc' = [proc EXCEPT ![c] =
                    AfterScan([p EXCEPT !.log = Append(@, "Query:invalid")],
                              s.membersWithScores, "ValidationException")]
       ELSE IF fail
       THEN /\ n = 0 /\ ~lek
            /\ proc' = [proc EXCEPT ![c] =
                    AfterScan([p EXCEPT !.log = Append(@, "Query:error")],
                              s.membersWithScores, "StoreError")]
       ELSE /\ PageAllowed(Len(matching), QueryLimit(s), n, lek)
            /\ LET r == ScanPage(s, SubSeq(matching, 1, n), lek) IN
               proc' = [proc EXCEPT ![c] =
                    IF r.more
                    THEN [p EXCEPT !.scan = r.scan, !.log = Append(@, "Query:ok")]
                    ELSE AfterScan([p EXCEPT !.scan = r.scan,
                                             !.log = Append(@, "Query:ok")],
                                   r.scan.membersWithScores, "nil")]
    /\ table' = table

(***************************************************************************)
(* ZSCORE as a call of its own.                                            *)
(***************************************************************************)
ZSCORE_Call(c, member) ==
    /\ Idle(c)
    /\ proc' = [proc EXCEPT ![c] =
            [op |-> "ZSCORE", pc |-> "get", member |-> member, score |-> 0,
             ok |-> FALSE, err |-> "nil", log |-> << >>, pre |-> table]]
    /\ table' = table

ZSCORE_Get(c, fail) ==
    /\ proc[c].op = "ZSCORE" /\ proc[c].pc = "get"
    /\ LET r == ZSCORE(table, proc[c].member, fail) IN
       proc' = [proc EXCEPT ![c] =
            [@ EXCEPT !.pc = "done", !.score = r[1], !.ok = r[2], !.err = r[3],
                      !.log = Append(@, IF fail THEN "GetItem:error" ELSE "GetItem:ok")]]
    /\ table' = table

(***************************************************************************)
(* History variables.                                                      *)
(***************************************************************************)
\* The call of c returned in this step.
Returned(c) == proc[c].pc # "done" /\ proc'[c].pc = "done"

\* expect: a ZINCRBY that returned without error adds its delta.
ObserveIncr(c) ==
    expect' = IF Returned(c) /\ proc'[c].op = "ZINCRBY" /\ proc'[c].err = "nil"
              THEN [expect EXCEPT ![proc'[c].member] = @ + proc'[c].delta]
              ELSE expect

\* mine: what the requests of c's current call changed in the table.
NoEffect == [written |-> {}, deleted |-> {}]

ObserveMine(c) ==
    mine' = [mine EXCEPT ![c] =
        IF Idle(c) \/ proc'[c].pc = "idle" THEN NoEffect
        ELSE [written |-> @.written \cup
                  { m \in Members : GetItem(table', m) # {}
                                    /\ GetItem(table', m) # GetItem(table, m) },
              deleted |-> @.deleted \cup
                  { m \in Members : GetItem(table, m) # {} /\ GetItem(table', m) = {} }]]

\* latest, clean: what a caller that saw only the arguments and the results
\* of its calls knows about each member.  A call that returns an error ends
\* that knowledge.
Known(m) == latest[m] # {}

LatestAfter(p) ==
    CASE p.op = "ZADD" ->
            [m \in Members |->
                IF /\ m \in DOMAIN p.args
                   /\ ("IfNotExists" \in p.flags => ~Known(m))
                   /\ ("IfAlreadyExists" \in p.flags => Known(m))
                THEN { p.args[m] } ELSE latest[m]]
      [] p.op = "ZINCRBY" -> [latest EXCEPT ![p.member] = { p.newScore }]
      [] p.op = "ZREM" ->
            [m \in Members |->
                IF \E k \in 1 .. Len(p.list) : p.list[k] = m THEN {} ELSE latest[m]]
      [] p.op \in Pops ->
            [m \in Members |-> IF m \in DOMAIN p.result THEN {} ELSE latest[m]]
      [] OTHER -> latest

ObserveLatest(c) ==
    IF Returned(c) /\ clean
    THEN IF proc'[c].err = "nil"
         THEN latest' = LatestAfter(proc'[c]) /\ clean' = TRUE
         ELSE latest' = [m \in Members |-> {}] /\ clean' = FALSE
    ELSE UNCHANGED <<latest, clean>>

(***************************************************************************)
(* One caller, whose calls follow one another.                             *)
(***************************************************************************)
MemberMaps == UNION { [S -> AddScores] : S \in (SUBSET Members) \ {{}} }
MemberLists == UNION { [1 .. n -> Members] : n \in 1 .. MaxList }
ScoreRange == (0 - 1) .. 2
Counts == 1 .. MaxCount
Indexes == (0 - MaxIndex) .. MaxIndex

Init ==
    /\ table = {}
    /\ proc = [c \in Clients |-> NoCall]
    /\ latest = [m \in Members |-> {}]
    /\ clean = TRUE
    /\ expect = [m \in Members |-> 0]
    /\ mine = [c \in Clients |-> NoEffect]
    /\ budget = 0
    /\ prev = NoCall

Observe(c) ==
    /\ ObserveLatest(c)
    /\ ObserveMine(c)
    /\ UNCHANGED <<expect, budget, prev>>

Next ==
    \/ \E a \in MemberMaps, f \in FlagSets : ZADD_Call(Caller, a, f) /\ Observe(Caller)
    \/ \E m \in Members, fail \in BOOLEAN :
            ZADD_Update(Caller, m, fail) /\ Observe(Caller)
    \/ \E m \in Members, d \in Deltas :
            /\ Stored(table, m) + d \in ScoreRange
            /\ ZINCRBY_Call(Caller, m, d)
            /\ Observe(Caller)
    \/ \E fail \in BOOLEAN : ZINCRBY_Read(Caller, fail) /\ Observe(Caller)
    \/ \E fail \in BOOLEAN : ZINCRBY_Write(Caller, fail) /\ Observe(Caller)
    \/ \E l \in MemberLists : ZREM_Call(Caller, l) /\ Observe(Caller)
    \/ \E m \in Members, fail \in BOOLEAN :
            ZREM_Delete(Caller, m, fail) /\ Observe(Caller)
    \/ \E n \in Counts, fwd \in BOOLEAN : ZPOP_Call(Caller, n, fwd) /\ Observe(Caller)
    \/ \E n \in 0 .. NumMembers, lek, fail \in BOOLEAN :
            Range_Query(Caller, n, lek, fail) /\ Observe(Caller)
    \/ \E m \in Members : ZSCORE_Call(Caller, m) /\ Observe(Caller)
    \/ \E fail \in BOOLEAN : ZSCORE_Get(Caller, fail) /\ Observe(Caller)
    \/ Return(Caller) /\ Observe(Caller)

Spec == Init /\ [][Next]_vars

(***************************************************************************)
(* One caller's read-only calls on a collection of any content.            *)
(***************************************************************************)
RankedTables ==
    { { [sk |-> m, sk2 |-> floatToLex(f[m])] : m \in DOMAIN f } :
        f \in UNION { [S -> ScoreRange] : S \in SUBSET Ranked } }

InitRead ==
    /\ table \in RankedTables
    /\ proc = [c \in Clients |-> NoCall]
    /\ latest = [m \in Members |-> {}]
    /\ clean = FALSE
    /\ expect = [m \in Members |-> 0]
    /\ mine = [c \in Clients |-> NoEffect]
    /\ budget = 0
    /\ prev = NoCall

NextRead ==
    \/ \E i, j \in Indexes :
            ZRANGE_Call(Caller, i, j, TRUE) /\ UNCHANGED <<latest, clean, expect, mine, budget, prev>>
    \/ \E n \in 0 .. NumRanked, lek, fail \in BOOLEAN :
            Range_Query(Caller, n, lek, fail)
            /\ UNCHANGED <<latest, clean, expect, mine, budget, prev>>
    \/ Return(Caller) /\ UNCHANGED <<latest, clean, expect, mine, budget, prev>>

SpecRead == InitRead /\ [][NextRead]_vars

(***************************************************************************)
(* Claims about one caller's calls.                                        *)
(***************************************************************************)
NoStoreError(log) == \A k \in 1 .. Len(log) :
    log[k] \notin {"GetItem:error", "UpdateItem:error", "DeleteItem:error", "Query:error"}

Finished(op) == proc[Caller].op = op /\ proc[Caller].pc = "done"
Found(score) == << score, TRUE, "nil" >>
NotFound == << 0, FALSE, "nil" >>
ListedIn(list) == { list[k] : k \in 1 .. Len(list) }
Present(tbl) == { it.sk : it \in tbl }

\* The members ZADD is to write, by its flags, on the table it started on.
ToWrite(p) ==
    { m \in DOMAIN p.args :
        /\ "IfNotExists" \in p.flags => ~Exists(p.pre, m)
        /\ "IfAlreadyExists" \in p.flags => Exists(p.pre, m) }

\* C3: a ZADD that met no store error returns no error and the number of
\* members it wrote: all of them without flags, the absent ones with
\* IfNotExists, the existing ones with IfAlreadyExists; the members it did
\* not write keep their score.
C3_ZADDCountsWritten ==
    Finished("ZADD") /\ NoStoreError(proc[Caller].log) =>
        LET p == proc[Caller] IN
        /\ p.err = "nil"
        /\ p.savedCount = Cardinality(ToWrite(p))
        /\ \A m \in Members :
              ZSCORE(table, m, FALSE) =
                  IF m \in ToWrite(p) THEN Found(p.args[m]) ELSE ZSCORE(p.pre, m, FALSE)

\* C4: between the calls of a caller whose calls all succeeded, a member
\* has at most one item, ZSCORE is the score of the latest successful write
\* to the member, or (0, false) without error when there is none or the
\* member was removed since, and the collection has one member per such
\* write; a ZSCORE call returns just that, and a ZADD of the scores the
\* members already have leaves the table as it was.
C4_ScoreIsLatestWrite ==
    /\ (clean /\ Quiet(Caller)) =>
          /\ \A a, b \in table : a.sk = b.sk => a = b
          /\ \A m \in Members :
                ZSCORE(table, m, FALSE) =
                    IF Known(m) THEN Found(CHOOSE x \in latest[m] : TRUE) ELSE NotFound
          /\ Cardinality(table) = Cardinality({ m \in Members : Known(m) })
    /\ (clean /\ Finished("ZSCORE")) =>
          LET p == proc[Caller] IN
          << p.score, p.ok, p.err >> =
              IF Known(p.member) THEN Found(CHOOSE x \in latest[p.member] : TRUE)
              ELSE NotFound
    /\ (clean /\ Finished("ZADD")) =>
          LET p == proc[Caller] IN
          (\A m \in DOMAIN p.args : ZSCORE(p.pre, m, FALSE) = Found(p.args[m]))
              => table = p.pre

\* A clean history in which a member was re-added with the score it had.
C4_Witness ==
    /\ clean /\ Finished("ZADD") /\ Cardinality(table) = 2
    /\ \A m \in DOMAIN proc[Caller].args :
          ZSCORE(proc[Caller].pre, m, FALSE) = Found(proc[Caller].args[m])

\* C5: a ZINCRBY that met no store error returns, without error, the score
\* the member had when the call started (0 when it did not exist) plus
\* delta, and ZSCORE then finds the member with that score.
C5_IncrementReturnsSum ==
    Finished("ZINCRBY") /\ NoStoreError(proc[Caller].log) =>
        LET p == proc[Caller] IN
        /\ p.err = "nil"
        /\ p.newScore = Stored(p.pre, p.member) + p.delta
        /\ ZSCORE(table, p.member, FALSE) = Found(p.newScore)
        /\ \A m \in Members \ {p.member} :
              ZSCORE(table, m, FALSE) = ZSCORE(p.pre, m, FALSE)

\* An increment of a member that existed with a score other than 0.
C5_Witness ==
    /\ Finished("ZINCRBY") /\ proc[Caller].err = "nil"
    /\ Found(2) = ZSCORE(proc[Caller].pre, proc[Caller].member, FALSE)
    /\ proc[Caller].delta = 0 - 1

\* C6: a ZREM that met no store error returns, without error, the number
\* of items it deleted, which are the listed members that existed: every
\* listed member is gone, every other member is as it was, and the
\* collection is smaller by the count returned.
C6_ZREMCountsDeleted ==
    Finished("ZREM") /\ NoStoreError(proc[Caller].log) =>
        LET p == proc[Caller]
            listed == ListedIn(p.list)
        IN
        /\ p.err = "nil"
        /\ p.count = Cardinality(listed \cap Present(p.pre))
        /\ p.count = Cardinality(mine[Caller].deleted)
        /\ mine[Caller].deleted = listed \cap Present(p.pre)
        /\ \A m \in listed : ZSCORE(table, m, FALSE) = NotFound
        /\ table = { it \in p.pre : it.sk \notin listed }
        /\ Cardinality(table) = Cardinality(p.pre) - p.count

\* A ZREM that listed an existing member twice, or with a member that does
\* not exist, and counted it once.
C6_Witness ==
    /\ Finished("ZREM") /\ proc[Caller].err = "nil"
    /\ Len(proc[Caller].list) = 2 /\ proc[Caller].count = 1
    /\ Cardinality(proc[Caller].pre) = 2

\* The k first members of the collection in the order of the scan.
FirstMembers(tbl, k, forward) ==
    LET sorted == SortItems(tbl, forward)
    IN  { sorted[j].sk : j \in 1 .. (IF k < Len(sorted) THEN k ELSE Len(sorted)) }

ScoresOf(tbl, S) == [m \in S |-> Stored(tbl, m)]

\* C7: a pop with count > 0 that met no store error returns, without error,
\* the min(count, N) members with the highest scores (ZPOPMIN: the lowest)
\* with their scores, and has removed exactly those members.
C7_PopReturnsExtremes ==
    (proc[Caller].op \in Pops /\ proc[Caller].pc = "done"
        /\ NoStoreError(proc[Caller].log)) =>
        LET p == proc[Caller]
            popped == FirstMembers(p.pre, p.scan.count, p.scan.forward)
        IN
        /\ p.err = "nil"
        /\ p.result = ScoresOf(p.pre, popped)
        /\ table = { it \in p.pre : it.sk \notin popped }

\* The members at the ranks lo .. hi (0-based) of the ascending order.
AtRanks(tbl, lo, hi) ==
    LET sorted == SortItems(tbl, TRUE)
    IN  { sorted[j].sk : j \in { k \in 1 .. Len(sorted) : lo <= k - 1 /\ k - 1 <= hi } }

\* C9: a ZRANGE with start >= 0 that met no store error returns, without
\* failing, exactly the members of the ranks start .. stop', where stop' is
\* stop, or N + stop when stop < 0; that is no member when start > stop' or
\* start >= N.
C9_RangeByRank ==
    (Finished("ZRANGE") /\ proc[Caller].start >= 0
        /\ NoStoreError(proc[Caller].log)) =>
        LET p == proc[Caller]
            N == Cardinality(p.pre)
            last == IF p.stop >= 0 THEN p.stop ELSE N + p.stop
        IN
        /\ p.err = "nil"
        /\ p.result = ScoresOf(p.pre, AtRanks(p.pre, p.start, last))

\* C10: a ZRANGE with start <= stop < 0 that returns without error returns
\* exactly the members at the positions -stop-1 .. -start-1 of the
\* descending order, which are the ranks N+start .. N+stop.
C10_RangeFromTail ==
    (Finished("ZRANGE") /\ proc[Caller].start < 0 /\ proc[Caller].stop < 0
        /\ proc[Caller].start <= proc[Caller].stop
        /\ proc[Caller].err = "nil") =>
        LET p == proc[Caller]
            N == Cardinality(p.pre)
        IN
        p.result = ScoresOf(p.pre, AtRanks(p.pre, N + p.start, N + p.stop))

(***************************************************************************)
(* Concurrent ZINCRBY calls on one member, which exists or not at first.   *)
(***************************************************************************)
IncrMembers == {1}

InitTables(S) ==
    { { [sk |-> m, sk2 |-> floatToLex(1)] : m \in T } : T \in SUBSET S }

InitIncr ==
    /\ table \in InitTables(IncrMembers)
    /\ proc = [c \in Clients |-> NoCall]
    /\ latest = [m \in Members |-> {}]
    /\ clean = FALSE
    /\ expect = [m \in Members |-> Stored(table, m)]
    /\ mine = [c \in Clients |-> NoEffect]
    /\ budget = MaxCalls
    /\ prev = NoCall

ObserveConcurrent(c) ==
    /\ ObserveIncr(c)
    /\ ObserveMine(c)
    /\ UNCHANGED <<latest, clean, prev>>

NextIncr ==
    \E c \in Clients :
        \/ \E m \in IncrMembers, d \in Deltas :
              /\ budget > 0
              /\ ZINCRBY_Call(c, m, d)
              /\ budget' = budget - 1
              /\ ObserveConcurrent(c)
        \/ \E fail \in BOOLEAN :
              ZINCRBY_Read(c, fail) /\ ObserveConcurrent(c) /\ UNCHANGED budget
        \/ \E fail \in BOOLEAN :
              ZINCRBY_Write(c, fail) /\ ObserveConcurrent(c) /\ UNCHANGED budget
        \/ Return(c) /\ ObserveConcurrent(c) /\ UNCHANGED budget

SpecIncr == InitIncr /\ [][NextIncr]_vars

\* A call in progress keeps taking its steps: every request is answered.
FairSpecIncr ==
    SpecIncr /\ \A c \in Clients :
        WF_vars(\E fail \in BOOLEAN :
                   (ZINCRBY_Read(c, fail) \/ ZINCRBY_Write(c, fail))
                   /\ ObserveConcurrent(c) /\ UNCHANGED budget)

(***************************************************************************)
(* Claims about ZINCRBY under concurrency.                                 *)
(***************************************************************************)
Count(log, x) == Cardinality({ i \in 1 .. Len(log) : log[i] = x })
Requests(log, kind) ==
    Cardinality({ i \in 1 .. Len(log) :
        log[i] \in { kind \o ":ok", kind \o ":error", kind \o ":condition" } })

\* C1: no successful increment is lost.  Once every call has returned, the
\* stored score of the member is its initial score (0 when it was absent)
\* plus the deltas of exactly the ZINCRBY calls that returned without error.
C1_NoLostIncrement ==
    (\A c \in Clients : Quiet(c))
        => \A m \in IncrMembers : Stored(table, m) = expect[m]

\* C2 (safety part): a ZINCRBY call makes at most 3 reads and 3 writes, goes
\* on after a request only when that request was a read that succeeded or a
\* write that failed its condition, returns Contention exactly when 3 writes
\* failed their condition and has then changed nothing in the table, and a
\* store error ends the call at once with that error.
C2_BoundedRetry ==
    \A c \in Clients : proc[c].op = "ZINCRBY" =>
        LET p == proc[c] IN
        /\ Requests(p.log, "GetItem") <= 3
        /\ Requests(p.log, "UpdateItem") <= 3
        /\ \A i \in 1 .. Len(p.log) - 1 :
              p.log[i] \in {"GetItem:ok", "UpdateItem:condition"}
        /\ (p.pc = "done" /\ p.err = Contention(p.member))
              <=> Count(p.log, "UpdateItem:condition") = 3
        /\ (p.pc = "done" /\ p.err = Contention(p.member))
              => mine[c] = NoEffect /\ Count(p.log, "UpdateItem:ok") = 0
        /\ (p.log # << >> /\ p.log[Len(p.log)] \in {"GetItem:error", "UpdateItem:error"})
              <=> (p.pc = "done" /\ p.err = "StoreError")
        /\ (p.pc = "done" /\ p.err = "nil")
              <=> (p.log # << >> /\ p.log[Len(p.log)] = "UpdateItem:ok")

\* C2: the safety part above, and every ZINCRBY call returns.
C2_AlwaysReturns ==
    /\ []C2_BoundedRetry
    /\ \A c \in Clients : (proc[c].op = "ZINCRBY") ~> (proc[c].pc = "done")

\* A call returned Contention while the other client's writes succeeded.
C2_Witness ==
    \E c \in Clients :
        /\ proc[c].op = "ZINCRBY" /\ proc[c].pc = "done" /\ proc[c].err = Contention(proc[c].member)
        /\ Len(proc[c].log) = 6

(***************************************************************************)
(* Concurrent ZPOPMIN, ZPOPMAX and ZREM calls on a pre-filled collection    *)
(* (each ZREM names one member).                                           *)
(***************************************************************************)
InitPop ==
    /\ table \in { { [sk |-> m, sk2 |-> floatToLex(m)] : m \in T } : T \in SUBSET Members }
    /\ proc = [c \in Clients |-> NoCall]
    /\ latest = [m \in Members |-> {}]
    /\ clean = FALSE
    /\ expect = [m \in Members |-> 0]
    /\ mine = [c \in Clients |-> NoEffect]
    /\ budget = MaxCalls
    /\ prev = NoCall

NextPop ==
    \E c \in Clients :
        \/ \E n \in Counts, fwd \in BOOLEAN :
              /\ budget > 0
              /\ ZPOP_Call(c, n, fwd)
              /\ budget' = budget - 1
              /\ ObserveConcurrent(c)
        \/ \E n \in 0 .. NumMembers, lek, fail \in BOOLEAN :
              Range_Query(c, n, lek, fail) /\ ObserveConcurrent(c) /\ UNCHANGED budget
        \/ \E m \in Members :
              /\ budget > 0
              /\ ZREM_Call(c, << m >>)
              /\ budget' = budget - 1
              /\ ObserveConcurrent(c)
        \/ \E m \in Members, fail \in BOOLEAN :
              ZREM_Delete(c, m, fail) /\ ObserveConcurrent(c) /\ UNCHANGED budget
        \/ Return(c) /\ ObserveConcurrent(c) /\ UNCHANGED budget

SpecPop == InitPop /\ [][NextPop]_vars

\* C8: a pop returns the members its scan fetched whether or not its own
\* DeleteItem removed them: of a pop that met no store error, the members
\* it deleted are among those it returns, the count of its removal loop is
\* the number it deleted, and every other member it returns is one whose
\* DeleteItem failed its condition because another call had removed it.
C8_PopReturnsWhatItFetched ==
    \A c \in Clients :
        (proc[c].op \in Pops /\ proc[c].pc = "done" /\ proc[c].err = "nil") =>
            LET p == proc[c] IN
            /\ p.result = p.scan.membersWithScores
            /\ mine[c].deleted \subseteq DOMAIN p.result
            /\ p.count = Cardinality(mine[c].deleted)
            /\ Count(p.log, "DeleteItem:condition")
                  = Cardinality(DOMAIN p.result \ mine[c].deleted)
            /\ \A m \in DOMAIN p.result \ mine[c].deleted : ~Exists(table, m)

\* Two concurrent ZPOPMIN(key, 1) calls returned the same member; one of
\* them deleted nothing.
C8_Witness ==
    /\ \A c \in Clients :
          /\ proc[c].op = "ZPOPMIN" /\ proc[c].pc = "done" /\ proc[c].err = "nil"
          /\ proc[c].scan.count = 1
    /\ proc["c1"].result = proc["c2"].result
    /\ DOMAIN proc["c1"].result # {}
    /\ mine["c1"].deleted = {}
    /\ mine["c2"].deleted = DOMAIN proc["c2"].result

(***************************************************************************)
(* _zGeneralCount(key, min, max, attribute): a Query with Select COUNT,    *)
(* page after page.  On sk2 it runs on the index lsi_sk2, on sk on the     *)
(* table itself, whose items are ordered by member name.  A member name is *)
(* the one-character string of the member's number; "" is << >>.           *)
(***************************************************************************)
\* The score of largest magnitude the encoding holds: +inf, and -inf negated.
Inf == 99

NameOf(m) == << m >>
Attribute(it, attribute) == IF attribute = "sk2" THEN it.sk2 ELSE NameOf(it.sk)

\* The key condition the builder is given, on the attribute's value.
CountCondition(value, min, max) ==
    LET betweenRange == min # << >> /\ max # << >> IN
    /\ betweenRange => LexLeq(min, value) /\ LexLeq(value, max)
    /\ (min # << >> /\ ~betweenRange) => LexLeq(min, value)
    /\ (max # << >> /\ ~betweenRange) => LexLeq(value, max)

CountBefore(a, b, attribute) ==
    IF attribute = "sk2" THEN ItemLess(a, b) ELSE a.sk < b.sk

RECURSIVE CountOrder(_, _)
CountOrder(S, attribute) ==
    IF S = {} THEN << >>
    ELSE LET first == CHOOSE a \in S : \A b \in S \ {a} : CountBefore(a, b, attribute)
         IN  << first >> \o CountOrder(S \ {first}, attribute)

CountScan(min, max, attribute) ==
    [min |-> min, max |-> max, attribute |-> attribute,
     lastEvaluatedKey |-> {}, count |-> 0]

\* Variant: count = resp.Count, the count of the last page.
CountLastPage(count, respCount) == respCount

\* count += aws.Int64Value(resp.Count)
CountAdd(count, respCount) == count + respCount

ZCOUNT_Call(c, minScore, maxScore) ==
    /\ Idle(c)
    /\ proc' = [proc EXCEPT ![c] =
            [op |-> "ZCOUNT", pc |-> "count", minScore |-> minScore, maxScore |-> maxScore,
             cs |-> CountScan(floatToLex(minScore), floatToLex(maxScore), "sk2"),
             count |-> 0, err |-> "nil", log |-> << >>, pre |-> table]]
    /\ table' = table

ZLEXCOUNT_Call(c, min, max) ==
    /\ Idle(c)
    /\ proc' = [proc EXCEPT ![c] =
            [op |-> "ZLEXCOUNT", pc |-> "count", min |-> min, max |-> max,
             cs |-> CountScan(min, max, "sk"),
             count |-> 0, err |-> "nil", log |-> << >>, pre |-> table]]
    /\ table' = table

Ranks == {"ZRANK", "ZREVRANK"}

ZRANK_Call(c, member, forward) ==
    /\ Idle(c)
    /\ proc' = [proc EXCEPT ![c] =
            [op |-> IF forward THEN "ZRANK" ELSE "ZREVRANK", pc |-> "score",
             member |-> member, forward |-> forward, cs |-> CountScan(<< >>, << >>, "sk2"),
             rank |-> 0, ok |-> FALSE, err |-> "nil", log |-> << >>, pre |-> table]]
    /\ table' = table

\* score, ok, err := c.ZSCORE(key, member), and the count that follows it
ZRANK_Score(c, fail) ==
    /\ proc[c].op \in Ranks /\ proc[c].pc = "score"
    /\ LET p == proc[c]
           r == ZSCORE(table, p.member, fail)
       IN
       proc' = [proc EXCEPT ![c] =
            IF r[3] # "nil" \/ ~r[2]
            THEN [p EXCEPT !.pc = "done", !.ok = r[2], !.err = r[3],
                           !.log = Append(@, IF fail THEN "GetItem:error" ELSE "GetItem:ok")]
            ELSE [p EXCEPT !.pc = "count", !.ok = TRUE,
                           !.cs = IF p.forward
                                  THEN CountScan(<< >>, floatToLex(r[1]), "sk2")
                                  ELSE CountScan(floatToLex(r[1]), << >>, "sk2"),
                           !.log = Append(@, "GetItem:ok")]]
    /\ table' = table

\* _zGeneralCount returned count and err.
AfterCount(p, count, err) ==
    IF p.op \in Ranks
    THEN [p EXCEPT !.pc = "done", !.err = err,
                   !.rank = IF err = "nil" THEN count - 1 ELSE 0]
    ELSE [p EXCEPT !.pc = "done", !.err = err, !.count = count]

\* One Query of the count loop.  n, lek: the page the store answers with.
Count_Query(c, n, lek, fail) ==
    /\ proc[c].pc = "count"
    /\ LET p == proc[c]
           cs == p.cs
           matching == CountOrder(
               { it \in table :
                   /\ CountCondition(Attribute(it, cs.attribute), cs.min, cs.max)
                   /\ \A k \in cs.lastEvaluatedKey : CountBefore(k, it, cs.attribute) },
               cs.attribute)
       IN
       IF fail
       THEN /\ n = 0 /\ ~lek
            /\ proc' = [proc EXCEPT ![c] =
                    AfterCount([p EXCEPT !.log = Append(@, "Query:error")],
                               cs.count, "StoreError")]
       ELSE /\ PageAllowed(Len(matching), {}, n, lek)
            /\ LET count == CountAdd(cs.count, n) IN
               proc' = [proc EXCEPT ![c] =
                    IF lek
                    THEN [p EXCEPT !.cs = [cs EXCEPT !.count = count,
                                                     !.lastEvaluatedKey = { matching[n] }],
                                   !.log = Append(@, "Query:ok")]
                    ELSE AfterCount([p EXCEPT !.cs = [cs EXCEPT !.count = count],
                                              !.log = Append(@, "Query:ok")],
                                    count, "nil")]
    /\ table' = table

(***************************************************************************)
(* One caller's ZRANK, ZREVRANK, ZCOUNT and ZLEXCOUNT calls on a           *)
(* collection of any content.                                              *)
(***************************************************************************)
CountScores == ScoreRange \cup {0 - Inf, Inf}
NameBounds == { << >> } \cup { NameOf(k) : k \in 0 .. NumRanked + 1 }

NextCount ==
    \/ \E m \in Ranked, fwd \in BOOLEAN :
            ZRANK_Call(Caller, m, fwd) /\ UNCHANGED <<latest, clean, expect, mine, budget, prev>>
    \/ \E fail \in BOOLEAN :
            ZRANK_Score(Caller, fail) /\ UNCHANGED <<latest, clean, expect, mine, budget, prev>>
    \/ \E min, max \in CountScores :
            ZCOUNT_Call(Caller, min, max)
            /\ UNCHANGED <<latest, clean, expect, mine, budget, prev>>
    \/ \E min, max \in NameBounds :
            ZLEXCOUNT_Call(Caller, min, max)
            /\ UNCHANGED <<latest, clean, expect, mine, budget, prev>>
    \/ \E n \in 0 .. NumRanked, lek, fail \in BOOLEAN :
            Count_Query(Caller, n, lek, fail)
            /\ UNCHANGED <<latest, clean, expect, mine, budget, prev>>
    \/ Return(Caller) /\ UNCHANGED <<latest, clean, expect, mine, budget, prev>>

SpecCount == InitRead /\ [][NextCount]_vars

\* The members with a lower score, and those before the member in the
\* order of the scan (by score, then by name among equal scores).
LowerScore(tbl, member, forward) ==
    { it \in tbl : IF forward THEN Stored(tbl, it.sk) < Stored(tbl, member)
                              ELSE Stored(tbl, it.sk) > Stored(tbl, member) }
OrderedBefore(tbl, member, forward) ==
    { it \in tbl : \E me \in GetItem(tbl, member) : ItemBefore(it, me, forward) }

\* C11: a ZRANK (ZREVRANK) that met no store error returns no error; for a
\* member that exists ok is true and the rank is the number of members
\* ordered before it: at least the members of lower (higher) score, at most
\* those before it in the order of the index; for a member that does not
\* exist ok is false.
C11_RankCountsMembersBefore ==
    (proc[Caller].op \in Ranks /\ proc[Caller].pc = "done"
        /\ NoStoreError(proc[Caller].log)) =>
        LET p == proc[Caller] IN
        /\ p.err = "nil"
        /\ p.ok = Exists(p.pre, p.member)
        /\ p.ok =>
              /\ Cardinality(LowerScore(p.pre, p.member, p.forward)) <= p.rank
              /\ p.rank <= Cardinality(OrderedBefore(p.pre, p.member, p.forward))
        /\ ~p.ok => p.rank = 0

\* C12: a ZCOUNT that met no store error returns, without error, the number
\* of members with min <= score <= max, and a ZLEXCOUNT the number of
\* members whose name is in [min, max], an empty bound being no bound,
\* however the store cut the matching items into pages.
C12_CountsMatchingMembers ==
    /\ (Finished("ZCOUNT") /\ NoStoreError(proc[Caller].log)) =>
          LET p == proc[Caller] IN
          /\ p.err = "nil"
          /\ p.count = Cardinality({ it \in p.pre :
                            /\ p.minScore <= Stored(p.pre, it.sk)
                            /\ Stored(p.pre, it.sk) <= p.maxScore })
    /\ (Finished("ZLEXCOUNT") /\ NoStoreError(proc[Caller].log)) =>
          LET p == proc[Caller] IN
          /\ p.err = "nil"
          /\ p.count = Cardinality({ it \in p.pre :
                            /\ p.min # << >> => p.min[1] <= it.sk
                            /\ p.max # << >> => it.sk <= p.max[1] })

\* A ZCOUNT from -inf that counted three members over three pages.
C12_Witness ==
    /\ Finished("ZCOUNT") /\ proc[Caller].err = "nil"
    /\ proc[Caller].minScore = 0 - Inf /\ proc[Caller].maxScore = 1
    /\ proc[Caller].count = 3 /\ Len(proc[Caller].log) = 3
    /\ Cardinality(proc[Caller].pre) = 3

(***************************************************************************)
(* One caller making a call and then the same call again on a pre-filled   *)
(* collection.  prev is the call it made before the current one: its       *)
(* operation and arguments, the table before and after it, and its log.    *)
(***************************************************************************)
Args(p) ==
    CASE p.op = "ZADD" -> << p.args, p.flags >>
      [] p.op = "ZREM" -> p.list
      [] p.op \in Pops -> p.scan.count
      [] p.op = "ZSCORE" -> p.member
      [] p.op \in {"ZRANGE", "ZREVRANGE"} -> << p.start, p.stop >>
      [] p.op \in Ranks -> p.member
      [] p.op = "ZCOUNT" -> << p.minScore, p.maxScore >>
      [] p.op = "ZLEXCOUNT" -> << p.min, p.max >>
      [] p.op = "ZINCRBY" -> << p.member, p.delta >>
      [] OTHER -> << >>

ObservePrev(c) ==
    prev' = IF proc[c].pc = "done" /\ proc'[c].pc = "idle"
            THEN [op |-> proc[c].op, pc |-> "idle", args |-> Args(proc[c]),
                  pre |-> proc[c].pre, table |-> table, log |-> proc[c].log]
            ELSE prev

ObserveTwice(c) ==
    /\ ObservePrev(c)
    /\ ObserveMine(c)
    /\ UNCHANGED <<latest, clean, expect>>

FilledTables ==
    { { [sk |-> m, sk2 |-> floatToLex(f[m])] : m \in DOMAIN f } :
        f \in UNION { [S -> AddScores] : S \in SUBSET Members } }

InitTwice ==
    /\ table \in FilledTables
    /\ proc = [c \in Clients |-> NoCall]
    /\ latest = [m \in Members |-> {}]
    /\ clean = FALSE
    /\ expect = [m \in Members |-> 0]
    /\ mine = [c \in Clients |-> NoEffect]
    /\ budget = 2
    /\ prev = NoCall

\* The caller starts a call.
Twice_Call(c) ==
    \/ \E a \in MemberMaps, f \in FlagSets : ZADD_Call(c, a, f)
    \/ \E l \in MemberLists : ZREM_Call(c, l)
    \/ \E n \in Counts, fwd \in BOOLEAN : ZPOP_Call(c, n, fwd)
    \/ \E m \in Members : ZSCORE_Call(c, m)
    \/ \E i, j \in (0 - 2) .. 1, fwd \in BOOLEAN : ZRANGE_Call(c, i, j, fwd)
    \/ \E m \in Members, fwd \in BOOLEAN : ZRANK_Call(c, m, fwd)
    \/ \E min, max \in AddScores : ZCOUNT_Call(c, min, max)
    \/ \E min, max \in { << >>, NameOf(1) } : ZLEXCOUNT_Call(c, min, max)

NextTwice ==
    \/ /\ budget > 0
       /\ Twice_Call(Caller)
       /\ prev # NoCall =>
              prev.op = proc'[Caller].op /\ prev.args = Args(proc'[Caller])
       /\ budget' = budget - 1
       /\ ObserveTwice(Caller)
    \/ \E m \in Members, fail \in BOOLEAN :
            ZADD_Update(Caller, m, fail) /\ ObserveTwice(Caller) /\ UNCHANGED budget
    \/ \E m \in Members, fail \in BOOLEAN :
            ZREM_Delete(Caller, m, fail) /\ ObserveTwice(Caller) /\ UNCHANGED budget
    \/ \E n \in 0 .. NumMembers, lek, fail \in BOOLEAN :
            Range_Query(Caller, n, lek, fail) /\ ObserveTwice(Caller) /\ UNCHANGED budget
    \/ \E fail \in BOOLEAN :
            ZSCORE_Get(Caller, fail) /\ ObserveTwice(Caller) /\ UNCHANGED budget
    \/ \E fail \in BOOLEAN :
            ZRANK_Score(Caller, fail) /\ ObserveTwice(Caller) /\ UNCHANGED budget
    \/ \E n \in 0 .. NumMembers, lek, fail \in BOOLEAN :
            Count_Query(Caller, n, lek, fail) /\ ObserveTwice(Caller) /\ UNCHANGED budget
    \/ Return(Caller) /\ ObserveTwice(Caller) /\ UNCHANGED budget

SpecTwice == InitTwice /\ [][NextTwice]_vars

ReadOnly == {"ZSCORE", "ZRANGE", "ZREVRANGE", "ZCOUNT", "ZLEXCOUNT"} \cup Ranks

\* The caller's call has returned, it is the call it made just before, and
\* neither met a store error.
SecondOfTwo ==
    /\ proc[Caller].pc = "done"
    /\ prev.op = proc[Caller].op
    /\ prev.args = Args(proc[Caller])
    /\ NoStoreError(prev.log)
    /\ NoStoreError(proc[Caller].log)

\* C13 as stated: a call of any operation but ZINCRBY made twice in
\* succession leaves the table as the first call left it.
C13_AllButIncrementIdempotent ==
    SecondOfTwo => table = prev.table

\* C13 amended: ZADD and ZREM made twice in succession leave the table as
\* the first call left it, and the read-only operations leave the table as
\* it was; ZPOPMIN and ZPOPMAX are not among the idempotent operations.
C13_AddRemoveIdempotent ==
    /\ (SecondOfTwo /\ proc[Caller].op \notin Pops) => table = prev.table
    /\ (proc[Caller].pc = "done" /\ proc[Caller].op \in ReadOnly)
          => table = proc[Caller].pre

\* A ZADD that changed the table was made again and changed nothing.
C13_Witness ==
    /\ SecondOfTwo /\ proc[Caller].op = "ZADD"
    /\ prev.pre # prev.table
    /\ table = prev.table

(***************************************************************************)
(* One caller's ZADD calls with scores that may be NaN, on a pre-filled     *)
(* collection.                                                             *)
(***************************************************************************)
NaNMaps == UNION { [S -> AddScores \cup {NaN}] : S \in (SUBSET Members) \ {{}} }

\* Only what the call's own requests changed is recorded.
ObserveOwn(c) ==
    /\ ObserveMine(c)
    /\ UNCHANGED <<latest, clean, expect, budget, prev>>

NextNaN ==
    \/ \E a \in NaNMaps, f \in FlagSets : ZADD_Call(Caller, a, f) /\ ObserveOwn(Caller)
    \/ \E m \in Members, fail \in BOOLEAN :
            ZADD_Update(Caller, m, fail) /\ ObserveOwn(Caller)
    \/ Return(Caller) /\ ObserveOwn(Caller)

SpecNaN == InitTwice /\ [][NextNaN]_vars

\* C14: a ZADD whose map holds a NaN score returns InvalidScore, has issued
\* no store request and has left the table as it was.
C14_NaNRejectedBeforeAnyRequest ==
    (Finished("ZADD") /\ \E m \in DOMAIN proc[Caller].args : proc[Caller].args[m] = NaN) =>
        /\ proc[Caller].err = "InvalidScore"
        /\ proc[Caller].log = << >>
        /\ table = proc[Caller].pre

(***************************************************************************)
(* Store errors in the middle of a batch or of a scan.                     *)
(***************************************************************************)
FailArgs == { << 0, 0 - 1 >>, << 0, 2 >>, << 1, 0 - 1 >>, << 0 - 2, 0 - 1 >> }

NextFail ==
    \/ \E a \in MemberMaps, f \in FlagSets : ZADD_Call(Caller, a, f) /\ ObserveOwn(Caller)
    \/ \E m \in Members, fail \in BOOLEAN :
            ZADD_Update(Caller, m, fail) /\ ObserveOwn(Caller)
    \/ \E l \in MemberLists : ZREM_Call(Caller, l) /\ ObserveOwn(Caller)
    \/ \E m \in Members, fail \in BOOLEAN :
            ZREM_Delete(Caller, m, fail) /\ ObserveOwn(Caller)
    \/ \E n \in Counts, fwd \in BOOLEAN : ZPOP_Call(Caller, n, fwd) /\ ObserveOwn(Caller)
    \/ \E a \in FailArgs, fwd \in BOOLEAN :
            ZRANGE_Call(Caller, a[1], a[2], fwd) /\ ObserveOwn(Caller)
    \/ \E n \in 0 .. NumMembers, lek, fail \in BOOLEAN :
            Range_Query(Caller, n, lek, fail) /\ ObserveOwn(Caller)
    \/ Return(Caller) /\ ObserveOwn(Caller)

SpecFail == InitTwice /\ [][NextFail]_vars

StoreErrors == {"GetItem:error", "UpdateItem:error", "DeleteItem:error", "Query:error"}
LastOf(log) == log[Len(log)]
FailedOn(p, entry) == p.pc = "done" /\ p.log # << >> /\ LastOf(p.log) = entry
Ranges == {"ZRANGE", "ZREVRANGE"}

\* C15: no request follows a store error: the call returns that error at
\* once.  A ZADD returns with it the number of members it wrote and a ZREM
\* the number it deleted, and what they wrote or deleted stays so; a scan
\* returns the members it had collected (a pop then removes nothing).
C15_FailFastKeepsPartialWork ==
    LET p == proc[Caller] IN
    p.op \in {"ZADD", "ZREM"} \cup Pops \cup Ranges =>
        /\ \A k \in 1 .. Len(p.log) - 1 : p.log[k] \notin StoreErrors
        /\ (p.log # << >> /\ LastOf(p.log) \in StoreErrors)
              => p.pc = "done" /\ p.err = "StoreError"
        /\ FailedOn(p, "UpdateItem:error") =>
              /\ p.savedCount = Count(p.log, "UpdateItem:ok")
              /\ \E W \in SUBSET (DOMAIN p.args \ p.rest) :
                    /\ Cardinality(W) = p.savedCount
                    /\ \A m \in Members :
                          ZSCORE(table, m, FALSE) =
                              IF m \in W THEN Found(p.args[m]) ELSE ZSCORE(p.pre, m, FALSE)
        /\ (p.op = "ZREM" /\ FailedOn(p, "DeleteItem:error")) =>
              /\ p.count = Count(p.log, "DeleteItem:ok")
              /\ p.count = Cardinality(mine[Caller].deleted)
              /\ table = { it \in p.pre : it.sk \notin mine[Caller].deleted }
        /\ FailedOn(p, "Query:error") =>
              /\ (p.op \in Pops \/ p.phase = "only")
                    => p.result = p.scan.membersWithScores
              /\ \A m \in DOMAIN p.result : p.result[m] = Stored(p.pre, m)
              /\ table = p.pre

\* A ZADD of two members wrote the first and met a store error on the
\* second: it returned the error with the count 1.
C15_Witness ==
    /\ Finished("ZADD") /\ proc[Caller].err = "StoreError"
    /\ proc[Caller].log = << "UpdateItem:ok", "UpdateItem:error" >>
    /\ proc[Caller].savedCount = 1
    /\ table # proc[Caller].pre

(***************************************************************************)
(* ZRANGEBYSCORE and ZREVRANGEBYSCORE: one scan between two scores, on a   *)
(* collection of any content.                                              *)
(***************************************************************************)
ByScore == {"ZRANGEBYSCORE", "ZREVRANGEBYSCORE"}

ZRANGEBYSCORE_Call(c, min, max, offset, count, forward) ==
    /\ Idle(c)
    /\ proc' = [proc EXCEPT ![c] =
            [op |-> IF forward THEN "ZRANGEBYSCORE" ELSE "ZREVRANGEBYSCORE", pc |-> "scan",
             phase |-> "only",
             scan |-> Scan(floatToLex(min), floatToLex(max), offset, count, forward),
             result |-> EmptyMap, err |-> "nil", log |-> << >>, pre |-> table]]
    /\ table' = table

Offsets == 0 .. 1
ScanCounts == (0 - 1) .. NumRanked

NextScan ==
    \/ \E min, max \in ScoreRange, offset \in Offsets, count \in ScanCounts, fwd \in BOOLEAN :
            /\ min <= max
            /\ ZRANGEBYSCORE_Call(Caller, min, max, offset, count, fwd)
            /\ UNCHANGED <<latest, clean, expect, mine, budget, prev>>
    \/ \E n \in 0 .. NumRanked, lek, fail \in BOOLEAN :
            Range_Query(Caller, n, lek, fail)
            /\ UNCHANGED <<latest, clean, expect, mine, budget, prev>>
    \/ Return(Caller) /\ UNCHANGED <<latest, clean, expect, mine, budget, prev>>

SpecScan == InitRead /\ [][NextScan]_vars

\* C17: when the scan loop of a scan with count > 0 is about to send a
\* Query, the limit it asks for is count + offset - seen, seen being the
\* items consumed from the pages before, and is at least 1.
C17_LimitIsRemainingBudget ==
    (proc[Caller].pc = "scan" /\ proc[Caller].scan.count > 0) =>
        LET s == proc[Caller].scan IN
        /\ QueryLimit(s) = { s.count + s.offset - s.index }
        /\ \A l \in QueryLimit(s) : l >= 1

\* The matching items at the positions offset .. offset+count-1 of the
\* scan's order, or from offset onwards when count <= 0, with their scores.
ScanExpected(tbl, s) ==
    LET sorted == Query(tbl, s.start, s.stop, s.forward, {})
        at == { k \in 1 .. Len(sorted) :
                    /\ k - 1 >= s.offset
                    /\ s.count > 0 => k - 1 <= s.offset + s.count - 1 }
    IN  [m \in { sorted[k].sk : k \in at } |-> Stored(tbl, m)]

\* C18: a scan that met no store error returns, without error, the matching
\* items at the positions offset .. offset+count-1 of its order (from offset
\* onwards when count <= 0), whatever pages the store answered with.
C18_ResultIndependentOfPaging ==
    (proc[Caller].op \in ByScore /\ proc[Caller].pc = "done"
        /\ NoStoreError(proc[Caller].log)) =>
        /\ proc[Caller].err = "nil"
        /\ proc[Caller].result = ScanExpected(proc[Caller].pre, proc[Caller].scan)

(***************************************************************************)
(* ZREVRANGE(start, stop) by one client and then ZRANGE(-stop-1, -start-1) *)
(* by another on the same collection, against a store that fills every     *)
(* page: a page holds all the matching items, or as many as the limit.     *)
(***************************************************************************)
FullPage(c, n, lek) ==
    LET s == proc[c].scan
        len == Len(Query(table, s.start, s.stop, s.forward, s.lastKey))
    IN  /\ n < len => n \in QueryLimit(s)
        /\ lek = (n < len)

NextMirror ==
    \/ \E i, j \in Indexes :
            /\ Idle("c2")
            /\ ZRANGE_Call("c1", i, j, FALSE)
            /\ UNCHANGED <<latest, clean, expect, mine, budget, prev>>
    \/ /\ proc["c1"].op = "ZREVRANGE" /\ proc["c1"].pc = "done"
       /\ ZRANGE_Call("c2", 0 - proc["c1"].stop - 1, 0 - proc["c1"].start - 1, TRUE)
       /\ UNCHANGED <<latest, clean, expect, mine, budget, prev>>
    \/ \E c \in Clients, n \in 0 .. NumRanked, lek, fail \in BOOLEAN :
            /\ Range_Query(c, n, lek, fail)
            /\ fail \/ (\E l \in QueryLimit(proc[c].scan) : l < 1) \/ FullPage(c, n, lek)
            /\ UNCHANGED <<latest, clean, expect, mine, budget, prev>>
    \/ /\ proc["c2"].pc = "done"
       /\ proc' = [c \in Clients |-> NoCall]
       /\ table' = table
       /\ UNCHANGED <<latest, clean, expect, mine, budget, prev>>

SpecMirror == InitRead /\ [][NextMirror]_vars

\* C19: when ZREVRANGE(start, stop) and ZRANGE(-stop-1, -start-1) on the
\* same collection both return without error, they return the same set of
\* members.
C19_ReverseIsMirroredRange ==
    LET r == proc["c1"]
        f == proc["c2"]
    IN  (/\ r.op = "ZREVRANGE" /\ r.pc = "done" /\ r.err = "nil"
         /\ f.op = "ZRANGE" /\ f.pc = "done" /\ f.err = "nil"
         /\ f.start = 0 - r.stop - 1 /\ f.stop = 0 - r.start - 1)
        => DOMAIN r.result = DOMAIN f.result

(***************************************************************************)
(* Geo commands.  An item of a geo collection is [sk, cell]: cell is the   *)
(* member's leaf cell on the space-filling curve.  Positions lie on a line *)
(* in half-cell units, so that a cell holds two positions and decoding a   *)
(* cell gives its representative point, not the position encoded.  A       *)
(* covering cell is a block of 2^level leaf cells; the level the library   *)
(* picks for a disc is any.  Distances are in the unit of the call.        *)
(***************************************************************************)
NumCells == 4
MaxLevel == 2
MaxRadius == 2

Cells == 0 .. NumCells - 1
Positions == 0 .. 2 * NumCells - 1

s2CellID(l) == l \div 2
fromCellIDString(cellID) == 2 * cellID
DistanceTo(l, other) == IF l >= other THEN l - other ELSE other - l

RECURSIVE Pow2(_)
Pow2(n) == IF n = 0 THEN 1 ELSE 2 * Pow2(n - 1)

\* cellID.RangeMin() and cellID.RangeMax() of the cell of a level holding a leaf
RangeOf(leaf, level) ==
    << (leaf \div Pow2(level)) * Pow2(level),
       (leaf \div Pow2(level)) * Pow2(level) + Pow2(level) - 1 >>

RECURSIVE RangeOrder(_)
RangeOrder(S) ==
    IF S = {} THEN << >>
    ELSE LET first == CHOOSE a \in S : \A b \in S : a[1] <= b[1]
         IN  << first >> \o RangeOrder(S \ {first})

\* radiusCap.CellUnionBound(): cells of one level that cover the disc
CellUnionBound(center, radius, level) ==
    RangeOrder({ RangeOf(s2CellID(l), level) :
                    l \in { q \in Positions : DistanceTo(center, q) <= radius } })

GeoBefore(a, b) == a.cell < b.cell \/ (a.cell = b.cell /\ a.sk < b.sk)

RECURSIVE GeoOrder(_)
GeoOrder(S) ==
    IF S = {} THEN << >>
    ELSE LET first == CHOOSE a \in S : \A b \in S \ {a} : GeoBefore(a, b)
         IN  << first >> \o GeoOrder(S \ {first})

\* The items of the cell range the query has not yet passed, in index order.
GeoQuery(tbl, range, cursor) ==
    GeoOrder({ it \in tbl : /\ range[1] <= it.cell /\ it.cell <= range[2]
                            /\ \A k \in cursor : GeoBefore(k, it) })

\* Variant: every candidate of a covering cell is accepted.
GeoAcceptAll(center, location, radius) == TRUE

\* center.DistanceTo(location, radiusUnit) <= radius
GeoAccept(center, location, radius) == DistanceTo(center, location) <= radius

GEORADIUS_Call(c, center, radius, count, level) ==
    /\ Idle(c)
    /\ LET cells == CellUnionBound(center, radius, level) IN
       proc' = [proc EXCEPT ![c] =
            [op |-> "GEORADIUS", pc |-> IF cells = << >> \/ count <= 0 THEN "done" ELSE "geo",
             center |-> center, radius |-> radius, asked |-> count, count |-> count,
             cover |-> cells, cells |-> cells, cursor |-> {}, positions |-> EmptyMap,
             err |-> "nil", log |-> << >>, pre |-> table]]
    /\ table' = table

\* for _, item := range resp.Items
RECURSIVE GeoConsume(_, _)
GeoConsume(p, items) ==
    IF items = << >> THEN p
    ELSE GeoConsume(
            IF GeoAccept(p.center, fromCellIDString(Head(items).cell), p.radius)
            THEN [p EXCEPT !.positions =
                               (Head(items).sk :> fromCellIDString(Head(items).cell)) @@ @,
                           !.count = @ - 1]
            ELSE p,
            Tail(items))

\* One Query of the inner loop, and the loop tests that follow it.
GEORADIUS_Query(c, n, lek, fail) ==
    /\ proc[c].op = "GEORADIUS" /\ proc[c].pc = "geo"
    /\ LET p == proc[c]
           matching == GeoQuery(table, Head(p.cells), p.cursor)
       IN
       IF fail
       THEN /\ n = 0 /\ ~lek
            /\ proc' = [proc EXCEPT ![c] =
                    [p EXCEPT !.pc = "done", !.err = "StoreError",
                              !.log = Append(@, "Query:error")]]
       ELSE /\ PageAllowed(Len(matching), { p.count }, n, lek)
            /\ LET q == GeoConsume([p EXCEPT !.log = Append(@, "Query:ok")],
                                   SubSeq(matching, 1, n))
               IN
               proc' = [proc EXCEPT ![c] =
                    IF lek /\ q.count > 0
                    THEN [q EXCEPT !.cursor = { matching[n] }]
                    ELSE IF q.count > 0 /\ Tail(q.cells) # << >>
                    THEN [q EXCEPT !.cells = Tail(@), !.cursor = {}]
                    ELSE [q EXCEPT !.pc = "done"]]
    /\ table' = table

(***************************************************************************)
(* GEODIST(key, member1, member2, unit): GEOPOS of the two members, one    *)
(* GetItem each.                                                           *)
(***************************************************************************)
GEODIST_Call(c, member1, member2) ==
    /\ Idle(c)
    /\ proc' = [proc EXCEPT ![c] =
            [op |-> "GEODIST", pc |-> "pos", member1 |-> member1, member2 |-> member2,
             list |-> << member1, member2 >>, i |-> 1, locations |-> EmptyMap,
             distance |-> 0, ok |-> FALSE, err |-> "nil", log |-> << >>, pre |-> table]]
    /\ table' = table

\* GEODIST once GEOPOS returned locations and err.
AfterGEOPOS(p, locations, err) ==
    IF err # "nil" \/ Cardinality(DOMAIN locations) < 2
    THEN [p EXCEPT !.pc = "done", !.locations = locations, !.err = err]
    ELSE [p EXCEPT !.pc = "done", !.locations = locations, !.ok = TRUE,
                   !.distance = DistanceTo(locations[p.member1], locations[p.member2])]

\* One round of the loop of GEOPOS.
GEOPOS_Get(c, fail) ==
    /\ proc[c].op = "GEODIST" /\ proc[c].pc = "pos"
    /\ LET p == proc[c]
           member == p.list[p.i]
           item == GetItem(table, member)
           locations == IF item # {}
                        THEN (member :> fromCellIDString((CHOOSE it \in item : TRUE).cell))
                                 @@ p.locations
                        ELSE p.locations
       IN
       proc' = [proc EXCEPT ![c] =
            IF fail
            THEN AfterGEOPOS([p EXCEPT !.log = Append(@, "GetItem:error")],
                             p.locations, "StoreError")
            ELSE IF p.i = Len(p.list)
            THEN AfterGEOPOS([p EXCEPT !.log = Append(@, "GetItem:ok")], locations, "nil")
            ELSE [p EXCEPT !.i = @ + 1, !.locations = locations,
                           !.log = Append(@, "GetItem:ok")]]
    /\ table' = table

(***************************************************************************)
(* One caller's GEORADIUS and GEODIST calls on a geo collection of any     *)
(* content.                                                                *)
(***************************************************************************)
\* Members are interchangeable: the collections in which the members are
\* m1 .. mk and lie along the curve in the order of their names stand for
\* all.
GeoTables ==
    { { [sk |-> m, cell |-> f[m]] : m \in DOMAIN f } :
        f \in { g \in UNION { [1 .. k -> Cells] : k \in 0 .. NumRanked } :
                  \A a, b \in DOMAIN g : a <= b => g[a] <= g[b] } }

InitGeo ==
    /\ table \in GeoTables
    /\ proc = [c \in Clients |-> NoCall]
    /\ latest = [m \in Members |-> {}]
    /\ clean = FALSE
    /\ expect = [m \in Members |-> 0]
    /\ mine = [c \in Clients |-> NoEffect]
    /\ budget = 0
    /\ prev = NoCall

NextGeo ==
    \/ \E center \in Positions, radius \in 0 .. MaxRadius,
          count \in Counts, level \in 0 .. MaxLevel :
            GEORADIUS_Call(Caller, center, radius, count, level)
            /\ UNCHANGED <<latest, clean, expect, mine, budget, prev>>
    \/ \E n \in 0 .. NumRanked, lek, fail \in BOOLEAN :
            GEORADIUS_Query(Caller, n, lek, fail)
            /\ UNCHANGED <<latest, clean, expect, mine, budget, prev>>
    \/ \E m1, m2 \in Ranked :
            GEODIST_Call(Caller, m1, m2)
            /\ UNCHANGED <<latest, clean, expect, mine, budget, prev>>
    \/ \E fail \in BOOLEAN :
            GEOPOS_Get(Caller, fail)
            /\ UNCHANGED <<latest, clean, expect, mine, budget, prev>>
    \/ Return(Caller) /\ UNCHANGED <<latest, clean, expect, mine, budget, prev>>

SpecGeo == InitGeo /\ [][NextGeo]_vars

\* The stored, decoded position of a member of a geo collection.
PositionOf(tbl, member) ==
    fromCellIDString((CHOOSE it \in GetItem(tbl, member) : TRUE).cell)

\* C16: at every point of a GEORADIUS with count > 0, the members collected
\* are members of the collection with their stored positions, each at a
\* distance <= radius from the center; they are at most count, and when
\* count of them have been collected the call has returned: it sends no
\* further Query.
C16_RadiusWithinDiscAndCount ==
    proc[Caller].op = "GEORADIUS" =>
        LET p == proc[Caller] IN
        /\ \A m \in DOMAIN p.positions :
              /\ GetItem(p.pre, m) # {}
              /\ p.positions[m] = PositionOf(p.pre, m)
              /\ DistanceTo(p.center, p.positions[m]) <= p.radius
        /\ Cardinality(DOMAIN p.positions) <= p.asked
        /\ Cardinality(DOMAIN p.positions) = p.asked - p.count
        /\ p.pc = "geo" => Cardinality(DOMAIN p.positions) < p.asked

\* A GEORADIUS returned count members although another member was within
\* the radius, and left out a member of its first covering cell that was not.
C16_Witness ==
    /\ Finished("GEORADIUS") /\ proc[Caller].err = "nil"
    /\ Cardinality(DOMAIN proc[Caller].positions) = proc[Caller].asked
    /\ \E it \in table :
          /\ it.sk \notin DOMAIN proc[Caller].positions
          /\ DistanceTo(proc[Caller].center, fromCellIDString(it.cell)) <= proc[Caller].radius
    /\ \E it \in table :
          /\ DistanceTo(proc[Caller].center, fromCellIDString(it.cell)) > proc[Caller].radius
          /\ LET range == proc[Caller].cover[1]
             IN  range[1] <= it.cell /\ it.cell <= range[2]

\* C20: a GEODIST that met no store error returns no error, ok = true
\* exactly when both members exist, member1 = member2 included, with the
\* distance between their stored positions (0 from a member to itself),
\* and distance 0 when ok is false.
C20_DistFoundWhenBothExist ==
    (Finished("GEODIST") /\ NoStoreError(proc[Caller].log)) =>
        LET p == proc[Caller] IN
        /\ p.err = "nil"
        /\ p.ok = (GetItem(p.pre, p.member1) # {} /\ GetItem(p.pre, p.member2) # {})
        /\ p.ok => p.distance = DistanceTo(PositionOf(p.pre, p.member1),
                                           PositionOf(p.pre, p.member2))
        /\ ~p.ok => p.distance = 0

(***************************************************************************)
(* GEOADD(key, members): one unconditional UpdateItem per member, in the   *)
(* order the map is iterated, setting the member's cell.                   *)
(***************************************************************************)
\* UpdateItem SET skGeoCell: creates the item of the key or overwrites its cell.
GeoUpdateItem(tbl, member, cell) ==
    (tbl \ GetItem(tbl, member)) \cup { [sk |-> member, cell |-> cell] }

GEOADD_Call(c, members) ==
    /\ Idle(c)
    /\ proc' = [proc EXCEPT ![c] =
            [op |-> "GEOADD", pc |-> "add", members |-> members, rest |-> DOMAIN members,
             addedCount |-> 0, err |-> "nil", log |-> << >>, pre |-> table]]
    /\ table' = table

\* One round of the loop: addedCount is returned as it is, and no statement
\* of the loop assigns it.
GEOADD_Update(c, member, fail) ==
    /\ proc[c].op = "GEOADD" /\ proc[c].pc = "add"
    /\ member \in proc[c].rest
    /\ LET p == proc[c]
           left == p.rest \ {member}
       IN
       IF fail
       THEN /\ proc' = [proc EXCEPT ![c] =
                    [@ EXCEPT !.pc = "done", !.err = "StoreError",
                              !.log = Append(@, "UpdateItem:error")]]
            /\ table' = table
       ELSE /\ proc' = [proc EXCEPT ![c] =
                    [@ EXCEPT !.pc = IF left = {} THEN "done" ELSE "add", !.rest = left,
                              !.log = Append(@, "UpdateItem:ok")]]
            /\ table' = GeoUpdateItem(table, member, s2CellID(p.members[member]))

(***************************************************************************)
(* One caller's GEOADD and GEODIST calls on a geo collection that is empty *)
(* at first.                                                               *)
(***************************************************************************)
LocationMaps == UNION { [S -> Positions] : S \in (SUBSET Members) \ {{}} }

NextGeoAdd ==
    \/ \E a \in LocationMaps : GEOADD_Call(Caller, a) /\ ObserveOwn(Caller)
    \/ \E m \in Members, fail \in BOOLEAN :
            GEOADD_Update(Caller, m, fail) /\ ObserveOwn(Caller)
    \/ \E m1, m2 \in Members : GEODIST_Call(Caller, m1, m2) /\ ObserveOwn(Caller)
    \/ \E fail \in BOOLEAN : GEOPOS_Get(Caller, fail) /\ ObserveOwn(Caller)
    \/ Return(Caller) /\ ObserveOwn(Caller)

SpecGeoAdd == Init /\ [][NextGeoAdd]_vars

\* C21: a GEOADD that has returned has stored the location of every member
\* it sent an UpdateItem for that succeeded, so that GEOPOS finds the member
\* at the point of its cell, and addedCount is the number of those members:
\* the size of the map when no store error occurred.
C21_AddCountsMembersWritten ==
    Finished("GEOADD") =>
        LET p == proc[Caller]
            sent == DOMAIN p.members \ p.rest
        IN
        /\ NoStoreError(p.log) => p.err = "nil" /\ sent = DOMAIN p.members
        /\ \A m \in sent :
              /\ GetItem(table, m) # {}
              /\ PositionOf(table, m) = fromCellIDString(s2CellID(p.members[m]))
        /\ p.addedCount = Count(p.log, "UpdateItem:ok")
        /\ p.addedCount = Cardinality(sent)

====
